---- MODULE Spec2Model ----
(***************************************************************************)
(* Model of nwhl_pbp_scraper.py: main() reads a game id, fetches the play  *)
(* by play JSON (get_pbp_dict), converts it to three tables                *)
(* (convert_pbp_dict), joins the player names onto five id columns         *)
(* (pull_player_names) and writes three pipe delimited files.              *)
(*                                                                         *)
(* Python values that may be null are tagged: None, NaN, I(n), S(chars).   *)
(* Python strings the code slices, strips, splits or searches are          *)
(* sequences of one-character strings, so that these operations are        *)
(* computed; strings the code only compares or copies are TLA+ strings.    *)
(* A Python dict is a function whose DOMAIN is the set of keys it holds.   *)
(***************************************************************************)
EXTENDS Integers, Sequences, FiniteSets, TLC

VARIABLES pc, game_id, requests, response, pbp_dict, parsed_plays_list,
          pbp_df, player_df, team_df, column, files, stdout, exc

vars == <<pc, game_id, requests, response, pbp_dict, parsed_plays_list,
          pbp_df, player_df, team_df, column, files, stdout, exc>>

\* Longest plays list of a fetched record.
MaxPlays == 2

-----------------------------------------------------------------------------
(* Python values *)

None == [t |-> "none"]
NaN == [t |-> "nan"]
I(n) == [t |-> "int", v |-> n]
S(s) == [t |-> "str", v |-> s]

IsNull(x) == x.t \in {"none", "nan"}

EmptyDict == [k \in {} |-> None]

\* dict.get(key): None when the key is absent.
Get(d, k) == IF k \in DOMAIN d THEN d[k] ELSE None

\* dict.get(key, default)
GetDefault(d, k, dflt) == IF k \in DOMAIN d THEN d[k] ELSE dflt

-----------------------------------------------------------------------------
(* Python string operations, on sequences of characters *)

Whitespace == {" ", "\t", "\n"}
DigitChars == <<"0", "1", "2", "3", "4", "5", "6", "7", "8", "9">>
UpperChars == <<"A", "B", "C", "D", "E", "F", "G", "H", "I", "J", "K", "L", "M",
                "N", "O", "P", "Q", "R", "S", "T", "U", "V", "W", "X", "Y", "Z">>
LowerChars == <<"a", "b", "c", "d", "e", "f", "g", "h", "i", "j", "k", "l", "m",
                "n", "o", "p", "q", "r", "s", "t", "u", "v", "w", "x", "y", "z">>

InSeq(c, s) == \E i \in 1..Len(s) : s[i] = c

IsDigit(c) == InSeq(c, DigitChars)

DigitVal(c) == (CHOOSE i \in 1..Len(DigitChars) : DigitChars[i] = c) - 1

RECURSIVE LStrip(_)
LStrip(s) ==
    IF s # <<>> /\ s[1] \in Whitespace THEN LStrip(Tail(s)) ELSE s

RECURSIVE RStrip(_)
RStrip(s) ==
    IF s # <<>> /\ s[Len(s)] \in Whitespace
    THEN RStrip(SubSeq(s, 1, Len(s) - 1))
    ELSE s

\* str.strip()
Strip(s) == RStrip(LStrip(s))

LowerChar(c) ==
    IF InSeq(c, UpperChars)
    THEN LowerChars[CHOOSE i \in 1..Len(UpperChars) : UpperChars[i] = c]
    ELSE c

\* str.lower()
Lower(s) == [i \in 1..Len(s) |-> LowerChar(s[i])]

\* needle in s
Contains(s, needle) ==
    \E i \in 1..(Len(s) - Len(needle) + 1) :
        SubSeq(s, i, i + Len(needle) - 1) = needle

\* s[:n]
Prefix(s, n) == SubSeq(s, 1, IF Len(s) < n THEN Len(s) ELSE n)

\* str.split(sep) for a one-character separator: always at least one piece.
RECURSIVE Split(_, _)
Split(s, sep) ==
    IF ~InSeq(sep, s)
    THEN <<s>>
    ELSE LET i == CHOOSE j \in 1..Len(s) :
                      s[j] = sep /\ \A k \in 1..(j - 1) : s[k] # sep
         IN <<SubSeq(s, 1, i - 1)>> \o Split(SubSeq(s, i + 1, Len(s)), sep)

RECURSIVE DigitsVal(_)
DigitsVal(d) ==
    IF d = <<>> THEN 0
    ELSE DigitsVal(SubSeq(d, 1, Len(d) - 1)) * 10 + DigitVal(d[Len(d)])

\* int(s): surrounding whitespace and one sign are accepted, then digits
\* only; anything else is a ValueError (ok = FALSE).
Unsigned(t) == IF t # <<>> /\ t[1] \in {"+", "-"} THEN Tail(t) ELSE t

AllDigits(d) == d # <<>> /\ \A i \in 1..Len(d) : IsDigit(d[i])

ParseDigits(t, d) ==
    IF AllDigits(d)
    THEN [ok |-> TRUE, v |-> IF t[1] = "-" THEN 0 - DigitsVal(d) ELSE DigitsVal(d)]
    ELSE [ok |-> FALSE, v |-> 0]

ParseStripped(t) == ParseDigits(t, Unsigned(t))

ParseInt(s) == ParseStripped(Strip(s))

RECURSIVE NatStr(_)
NatStr(n) ==
    IF n < 10 THEN <<DigitChars[n + 1]>>
    ELSE NatStr(n \div 10) \o <<DigitChars[(n % 10) + 1]>>

\* str(x), as '{}'.format(x) renders a value
PyStr(x) ==
    CASE x.t = "str" -> x.v
      [] x.t = "none" -> <<"N", "o", "n", "e">>
      [] x.t = "nan" -> <<"n", "a", "n">>
      [] x.t = "int" -> IF x.v < 0 THEN <<"-">> \o NatStr(0 - x.v) ELSE NatStr(x.v)

-----------------------------------------------------------------------------
(* convert_pbp_dict: one play to one event_row *)

\* An outcome of a computation that may raise: exc = "" when it returned v.
Ok(v) == [exc |-> "", v |-> v]
Raise(e) == [exc |-> e, v |-> None]

PeriodEndSeconds == 1200

s_Goal == <<"G", "o", "a", "l">>
s_penalty == <<"p", "e", "n", "a", "l", "t", "y">>

\* The special-tag test of lines 71 and 88.
IsPeriodEnd(play) ==
    play.special_tags # <<>> /\ play.special_tags[1] = "ends_time_interval"

\* Lines 76-82: the try block. Only AttributeError (the clock is None, which
\* has no split) is caught; int() of a non-number raises ValueError and
\* time[1] of a one-piece split raises IndexError, both uncaught.
SplitSeconds(time) ==
    IF ~ParseInt(time[1]).ok THEN Raise("ValueError")
    ELSE IF Len(time) < 2 THEN Raise("IndexError")
    ELSE IF ~ParseInt(time[2]).ok THEN Raise("ValueError")
    ELSE Ok(ParseInt(time[1]).v * 60 + ParseInt(time[2]).v)

ClockSeconds(clock) ==
    IF clock.t # "str" THEN Ok(0) ELSE SplitSeconds(Split(clock.v, ":"))

\* Mutant: the Shootout test comes before the special-tag test.
SecondsElapsed_ShootoutFirst(play) ==
    IF play.play_type = "Shootout" THEN Ok(0)
    ELSE IF IsPeriodEnd(play) THEN Ok(PeriodEndSeconds)
    ELSE ClockSeconds(play.clock_time_string)

\* Mutant: no Shootout branch, the clock of a Shootout play is parsed.
SecondsElapsed_NoShootout(play) ==
    IF IsPeriodEnd(play) THEN Ok(PeriodEndSeconds)
    ELSE ClockSeconds(play.clock_time_string)

\* Lines 70-82.
SecondsElapsed(play) ==
    IF IsPeriodEnd(play) THEN Ok(PeriodEndSeconds)
    ELSE IF play.play_type = "Shootout" THEN Ok(0)
    ELSE ClockSeconds(play.clock_time_string)

\* Lines 87-91.
EventType(play) ==
    IF IsPeriodEnd(play) THEN "Period End" ELSE play.play_type

\* Lines 93-99: play_summary['details'] is a subscript, a KeyError when the
\* summary has no details.
Describe(play, d) ==
    IF Lower(d) = s_penalty
    THEN IF "details" \notin DOMAIN play.play_summary
         THEN Raise("KeyError")
         ELSE Ok(d \o <<" ">> \o PyStr(play.play_summary["details"]))
    ELSE Ok(d)

EventDescription(play) == Describe(play, Strip(play.play_by_play_string))

\* Mutant: the goal branch is never taken.
EventPlayers_PrimaryOnly(play) ==
    <<play.primary_player_id,
      Get(play.play_summary, "loser_id"),
      GetDefault(play.play_summary, "assist_2_id", I(0))>>

\* Lines 104-113: <<event_p1, event_p2, event_p3>>.
EventPlayers(play) ==
    IF Contains(play.play_by_play_string, s_Goal)
    THEN <<Get(play.play_summary, "scorer_id"),
           Get(play.play_summary, "assist_1_id"),
           Get(play.play_summary, "assist_2_id")>>
    ELSE <<play.primary_player_id,
           Get(play.play_summary, "loser_id"),
           GetDefault(play.play_summary, "assist_2_id", I(0))>>

\* Lines 60-121: the body of the loop, one event_row under the column names
\* of lines 124-127.
RowOf(play, se, de, ps, action) ==
       IF se.exc # "" THEN Raise(se.exc)
       ELSE IF de.exc # "" THEN Raise(de.exc)
       ELSE Ok([event_index |-> play.play_index,
                date |-> Prefix(play.created_at, 10),
                time |-> play.clock_time_string,
                seconds_elapsed |-> se.v,
                game_id |-> play.game_id,
                event |-> EventType(play),
                event_description |-> de.v,
                period |-> play.time_interval,
                event_p1 |-> ps[1],
                event_p2 |-> ps[2],
                event_p3 |-> ps[3],
                event_team |-> play.team_id,
                x_coord |-> Get(play.play_summary, "x_coord"),
                y_coord |-> Get(play.play_summary, "y_coord"),
                away_goalie |-> Get(action, "away_team_goalie"),
                home_goalie |-> Get(action, "home_team_goalie"),
                away_score |-> Get(action, "away_team_score"),
                home_score |-> Get(action, "home_team_score")])

EventRow(play) ==
    RowOf(play, SecondsElapsed(play), EventDescription(play),
          EventPlayers(play), play.play_actions[1])

\* Lines 59-121: the loop. rows is parsed_plays_list as far as it was built
\* when a play raised.
RECURSIVE ParsePlays(_, _)
AppendRow(plays, acc, r) ==
    IF r.exc # "" THEN [exc |-> r.exc, rows |-> acc]
    ELSE ParsePlays(Tail(plays), Append(acc, r.v))

ParsePlays(plays, acc) ==
    IF plays = <<>> THEN [exc |-> "", rows |-> acc]
    ELSE AppendRow(plays, acc, EventRow(Head(plays)))

-----------------------------------------------------------------------------
(* convert_pbp_dict: the play table. A DataFrame is the sequence of its    *)
(* rows; the field "index" of a row is its index label.                    *)

\* The columns of lines 124-127 that hold a tagged value (they may be null
\* in the source). The other columns hold the plain numbers and strings
\* the inputs give them.
NullableCols == {"time", "event_p1", "event_p2", "event_p3", "x_coord",
                 "y_coord", "away_goalie", "home_goalie", "away_score",
                 "home_score"}

IdCols == {"event_p1", "event_p2", "event_p3", "away_goalie", "home_goalie"}

\* Line 130: pd.DataFrame(parsed_plays_list, columns=cols) labels the rows
\* 0, 1, ... in list order.
DataFrame(rows) ==
    [i \in 1..Len(rows) |-> rows[i] @@ [index |-> i - 1]]

\* Mutant: the table is not filled.
FillNa_Skipped(df) == df

\* Line 133: fillna(0) over the whole table.
FillNa(df) ==
    [i \in 1..Len(df) |->
        [c \in DOMAIN df[i] |->
            IF c \in NullableCols /\ IsNull(df[i][c]) THEN I(0) ELSE df[i][c]]]

\* pd.to_numeric(x, errors='coerce') of one cell: a number stays, a string
\* that reads as a number becomes it, anything else becomes NaN.
ToNumeric(x) ==
    CASE x.t = "int" -> x
      [] x.t = "str" -> IF ParseInt(x.v).ok THEN I(ParseInt(x.v).v) ELSE NaN
      [] OTHER -> NaN

\* Lines 143-147.
CoerceIds(df) ==
    [i \in 1..Len(df) |->
        [c \in DOMAIN df[i] |->
            IF c \in IdCols THEN ToNumeric(df[i][c]) ELSE df[i][c]]]

\* Lines 136-140: team_df.loc[0, ...] and team_df.loc[1, ...] broadcast on
\* every row; a label the team table does not hold is a KeyError.
BroadcastTeams(df, teams) ==
    IF Len(teams) < 2 THEN Raise("KeyError")
    ELSE Ok([i \in 1..Len(df) |->
                df[i] @@ [home_team |-> teams[1].name,
                          home_team_id |-> teams[1].team_id,
                          away_team |-> teams[2].name,
                          away_team_id |-> teams[2].team_id]])

\* Mutant: the sort leaves event_index out.
SortKey_NoIndex(r) == <<r.period, r.seconds_elapsed>>

\* The sort key of line 149.
SortKey(r) == <<r.period, r.seconds_elapsed, r.event_index>>

\* Lexicographic a <= b on keys of equal length.
KeyLeq(a, b) ==
    \/ a = b
    \/ \E i \in 1..Len(a) :
          a[i] < b[i] /\ \A j \in 1..(i - 1) : a[j] = b[j]

\* r goes after every row whose key is <= its own: rows of equal key keep
\* their order (pandas sorts several columns with a stable lexsort).
RECURSIVE InsertRow(_, _)
InsertRow(sorted, r) ==
    IF sorted = <<>> THEN <<r>>
    ELSE IF KeyLeq(SortKey(Head(sorted)), SortKey(r))
         THEN <<Head(sorted)>> \o InsertRow(Tail(sorted), r)
         ELSE <<r>> \o sorted

\* Line 149: sort_values(by=['period', 'seconds_elapsed', 'event_index']);
\* the rows keep their index labels.
RECURSIVE SortValues(_)
SortValues(df) ==
    IF df = <<>> THEN <<>>
    ELSE InsertRow(SortValues(SubSeq(df, 1, Len(df) - 1)), df[Len(df)])

\* Lines 49-153: [exc, parsed, pbp_df, player_df, team_df]. The three
\* top-level keys are subscripted in the order roster_player, team_instance,
\* plays.
Raised(e, rows) ==
    [exc |-> e, parsed |-> rows, pbp_df |-> <<>>, player_df |-> <<>>,
     team_df |-> <<>>]

\* Lines 136-153, given the filled table with the team columns.
ConvertTable(d, rows, withTeams) ==
    IF withTeams.exc # "" THEN Raised(withTeams.exc, rows)
    ELSE [exc |-> "",
          parsed |-> rows,
          pbp_df |-> SortValues(CoerceIds(withTeams.v)),
          player_df |-> d["roster_player"],
          team_df |-> d["team_instance"]]

\* Lines 123-153, given the outcome of the loop.
ConvertParsed(d, parsed) ==
    IF parsed.exc # "" THEN Raised(parsed.exc, parsed.rows)
    ELSE ConvertTable(d, parsed.rows,
                      BroadcastTeams(FillNa(DataFrame(parsed.rows)),
                                     d["team_instance"]))

convert_pbp_dict(d) ==
    IF "roster_player" \notin DOMAIN d THEN Raised("KeyError", <<>>)
    ELSE IF "team_instance" \notin DOMAIN d THEN Raised("KeyError", <<>>)
    ELSE IF "plays" \notin DOMAIN d THEN Raised("KeyError", <<>>)
    ELSE ConvertParsed(d, ParsePlays(d["plays"], <<>>))

-----------------------------------------------------------------------------
(* pull_player_names *)

\* Mutant: the names are not stripped.
FullName_NoStrip(p) == p.first_name \o <<" ">> \o p.last_name

\* Line 172: first_name.str.strip() + ' ' + last_name.str.strip()
FullName(p) == Strip(p.first_name) \o <<" ">> \o Strip(p.last_name)

\* Line 172: the full_name column is added to (or overwritten in) the
\* caller's player table.
WithFullNames(players) ==
    [i \in 1..Len(players) |->
        [first_name |-> players[i].first_name,
         last_name |-> players[i].last_name,
         id |-> players[i].id,
         full_name |-> S(FullName(players[i]))]]

\* The player rows, in table order, whose id equals the key x.
RECURSIVE Matches(_, _)
Matches(players, x) ==
    IF players = <<>> THEN <<>>
    ELSE (IF x = I(Head(players).id) THEN <<Head(players)>> ELSE <<>>)
         \o Matches(Tail(players), x)

\* Lines 175-178 for one left row: one output row per matching player, in
\* player-table order, or one row with a null name when none matches.
Named(r, id_column, n) == r @@ (id_column \o "_name" :> n)

\* Mutant: an inner join, a row without a matching player is dropped.
JoinMatches_Inner(r, id_column, ms) ==
    [k \in 1..Len(ms) |-> Named(r, id_column, ms[k].full_name)]

JoinMatches(r, id_column, ms) ==
    IF ms = <<>> THEN <<Named(r, id_column, NaN)>>
    ELSE [k \in 1..Len(ms) |-> Named(r, id_column, ms[k].full_name)]

JoinRow(r, players, id_column) ==
    JoinMatches(r, id_column, Matches(players, r[id_column]))

RECURSIVE JoinRows(_, _, _)
JoinRows(df, players, id_column) ==
    IF df = <<>> THEN <<>>
    ELSE JoinRow(Head(df), players, id_column)
         \o JoinRows(Tail(df), players, id_column)

\* merge() gives its result a fresh index 0, 1, ...
ResetIndex(df) ==
    [i \in 1..Len(df) |-> [df[i] EXCEPT !.index = i - 1]]

\* Lines 172-180: the left join of the play table with player_df[['id',
\* 'full_name']] on id_column, full_name renamed <id_column>_name. The
\* right table's id column, which the projection of lines 200-205 drops,
\* is not carried: the merges name its copies id, id_x, id_y, and the
\* fourth merge repeats id_x. The model follows the pandas releases that
\* accept the repeated name (before 2.0; later ones raise MergeError there).
pull_player_names(df, players, id_column) ==
    ResetIndex(JoinRows(df, WithFullNames(players), id_column))

-----------------------------------------------------------------------------
(* The inputs: what the endpoint may answer *)

c_0523 == <<"0", "5", ":", "2", "3">>
c_1200 == <<"1", "2", ":", "0", "0">>
c_0045 == <<"0", "0", ":", "4", "5">>
c_abc == <<"a", "b", "c">>
c_12 == <<"1", "2">>
c_052311 == <<"0", "5", ":", "2", "3", ":", "1", "1">>
s_created == <<"2", "0", "1", "9", "-", "1", "0", "-", "0", "5", "T", "1", "9">>
s_Faceoff == <<"F", "a", "c", "e", "o", "f", "f">>
s_PPGoal == <<" ", "P", "P", " ", "G", "o", "a", "l">>
s_Shot == <<"S", "h", "o", "t", " ">>
s_Penalty == <<" ", "P", "e", "n", "a", "l", "t", "y", " ">>
s_Tripping == <<"T", "r", "i", "p">>
s_x7 == <<"x", "7">>
s_21 == <<"2", "1">>

FullAction == [away_team_goalie |-> I(30), home_team_goalie |-> I(31),
               away_team_score |-> I(0), home_team_score |-> I(1)]

Faceoff == [play_index |-> 1, created_at |-> s_created,
            clock_time_string |-> S(c_0523), special_tags |-> <<>>,
            play_type |-> "Faceoff", play_by_play_string |-> s_Faceoff,
            time_interval |-> 1, primary_player_id |-> I(10),
            team_id |-> 100, game_id |-> 18507472,
            play_summary |-> [loser_id |-> I(11), x_coord |-> I(50),
                              y_coord |-> I(-20)],
            play_actions |-> <<FullAction>>]

\* A goal with one assist, no coordinates, and a first action entry without
\* the away goalie.
Goal == [Faceoff EXCEPT !.play_index = 2, !.clock_time_string = S(c_1200),
            !.play_type = "Goal", !.play_by_play_string = s_Goal,
            !.play_summary = [scorer_id |-> I(20), assist_1_id |-> S(s_21)],
            !.play_actions = <<[home_team_goalie |-> I(31),
                                home_team_score |-> I(1)]>>]

\* A goal with both assists, a loser id, and a null y coordinate.
PPGoal == [Faceoff EXCEPT !.play_index = 3, !.clock_time_string = S(c_0045),
            !.play_type = "Goal", !.play_by_play_string = s_PPGoal,
            !.time_interval = 2,
            !.play_summary = [scorer_id |-> I(20), assist_1_id |-> I(21),
                              assist_2_id |-> I(10), loser_id |-> I(11),
                              x_coord |-> I(5), y_coord |-> None]]

PeriodEnd == [Faceoff EXCEPT !.play_index = 4, !.clock_time_string = None,
            !.special_tags = <<"ends_time_interval">>,
            !.play_type = "Period", !.play_by_play_string = s_Shot,
            !.primary_player_id = None, !.play_summary = EmptyDict]

\* A period end whose type is Shootout and whose clock does not parse.
ShootoutEnd == [Faceoff EXCEPT !.play_index = 5,
            !.clock_time_string = S(c_abc),
            !.special_tags = <<"ends_time_interval", "other">>,
            !.play_type = "Shootout", !.time_interval = 4]

Shootout == [Faceoff EXCEPT !.play_index = 6, !.play_type = "Shootout",
            !.time_interval = 4, !.play_summary = EmptyDict]

\* Not a goal, with an assist-2 id and a scorer id in its summary.
Shot == [Faceoff EXCEPT !.play_index = 7, !.clock_time_string = S(c_1200),
            !.special_tags = <<"other">>,
            !.play_type = "Shot", !.play_by_play_string = s_Shot,
            !.play_summary = [loser_id |-> I(11), assist_2_id |-> I(21),
                              scorer_id |-> I(20)]]

NoClock == [Faceoff EXCEPT !.play_index = 8, !.clock_time_string = None,
            !.play_type = "Shot", !.play_by_play_string = s_Shot,
            !.primary_player_id = S(s_x7)]

BadClock == [Faceoff EXCEPT !.play_index = 9, !.clock_time_string = S(c_abc)]

NoColon == [Faceoff EXCEPT !.play_index = 10, !.clock_time_string = S(c_12)]

LongClock == [Faceoff EXCEPT !.play_index = 11,
            !.clock_time_string = S(c_052311)]

Penalty == [Faceoff EXCEPT !.play_index = 12, !.play_type = "Penalty",
            !.play_by_play_string = s_Penalty,
            !.play_summary = [details |-> S(s_Tripping)]]

PenaltyNoDetails == [Penalty EXCEPT !.play_index = 13,
            !.play_summary = EmptyDict]

\* The faceoff's period and clock under a smaller index.
EarlyFaceoff == [Faceoff EXCEPT !.play_index = 0,
            !.primary_player_id = I(11),
            !.play_summary = [loser_id |-> I(10)]]

PlayPool == {Faceoff, Goal, PPGoal, PeriodEnd, ShootoutEnd, Shootout, Shot,
             NoClock, BadClock, NoColon, LongClock, Penalty, PenaltyNoDetails,
             EarlyFaceoff}

PlayLists == UNION {[1..n -> PlayPool] : n \in 0..MaxPlays}

n_Ann == <<" ", "A", "n", "n">>
n_Lee == <<"L", "e", "e", " ">>
n_Bea == <<"B", "e", "a">>
n_Roy == <<"R", "o", "y">>
n_Cy == <<"C", "y">>
n_Empty == <<>>

Player(id, first, last) == [id |-> id, first_name |-> first, last_name |-> last]

\* Unique ids.
Roster == <<Player(10, n_Ann, n_Lee), Player(11, n_Bea, n_Roy),
            Player(20, n_Cy, n_Lee), Player(30, n_Roy, n_Empty)>>

\* The id 10 twice.
RosterDup == <<Player(10, n_Ann, n_Lee), Player(20, n_Cy, n_Lee),
               Player(10, n_Bea, n_Roy)>>

\* A player whose id is 0.
RosterZero == <<Player(0, n_Cy, n_Roy), Player(31, n_Bea, n_Lee)>>

Rosters == {Roster, RosterDup, RosterZero}

TwoTeams == <<[name |-> "Pride", team_id |-> 100],
              [name |-> "Whale", team_id |-> 200]>>
OneTeam == <<[name |-> "Pride", team_id |-> 100]>>

TopLevelKeys == {"plays", "roster_player", "team_instance"}

Record(plays, roster, teams) ==
    [plays |-> plays, roster_player |-> roster, team_instance |-> teams]

Without(d, k) == [x \in (DOMAIN d) \ {k} |-> d[x]]

ShortLists == {l \in PlayLists : Len(l) <= 1}

Records ==
    {Record(l, r, TwoTeams) : l \in PlayLists, r \in Rosters}
    \cup {Record(l, Roster, OneTeam) : l \in ShortLists}
    \cup {Without(Record(l, Roster, TwoTeams), k) :
            l \in ShortLists, k \in TopLevelKeys}

\* requests.get raises, req.json() raises, or the body decodes.
Responses ==
    {[kind |-> "connection_error"], [kind |-> "not_json"]}
    \cup {[kind |-> "json", body |-> d] : d \in Records}

GameIds == {"18507472", "7"}

-----------------------------------------------------------------------------
(* main *)

PlayerIdColumns ==
    <<"event_p1", "event_p2", "event_p3", "away_goalie", "home_goalie">>

\* The column list of lines 200-205.
OutputCols ==
    {"event_index", "date", "time", "seconds_elapsed", "game_id", "event",
     "event_description", "period", "event_p1", "event_p1_name", "event_p2",
     "event_p2_name", "event_p3", "event_p3_name", "event_team", "x_coord",
     "y_coord", "away_goalie", "away_goalie_name", "home_goalie",
     "home_goalie_name", "away_score", "home_score", "home_team_id",
     "home_team", "away_team_id", "away_team"}

ConfirmationMessage == "Dataframes written to Disk"

Init ==
    /\ pc = "input"
    /\ game_id = ""
    /\ requests = 0
    /\ response = [kind |-> "none"]
    /\ pbp_dict = EmptyDict
    /\ parsed_plays_list = <<>>
    /\ pbp_df = <<>>
    /\ player_df = <<>>
    /\ team_df = <<>>
    /\ column = 1
    /\ files = <<>>
    /\ stdout = <<>>
    /\ exc = ""

\* Line 188.
input_game_id ==
    /\ pc = "input"
    /\ \E g \in GameIds : game_id' = g
    /\ pc' = "get_pbp_dict"
    /\ UNCHANGED <<requests, response, pbp_dict, parsed_plays_list, pbp_df,
                   player_df, team_df, column, files, stdout, exc>>

\* Lines 11-31 (called at line 190): one GET, then req.json(). Either may
\* raise; nothing catches it.
get_pbp_dict ==
    /\ pc = "get_pbp_dict"
    /\ requests' = requests + 1
    /\ \E resp \in Responses :
          /\ response' = resp
          /\ IF resp.kind = "json"
             THEN pbp_dict' = resp.body /\ pc' = "convert_pbp_dict" /\ exc' = ""
             ELSE /\ pbp_dict' = pbp_dict
                  /\ pc' = "error"
                  /\ exc' = IF resp.kind = "not_json" THEN "JSONDecodeError"
                            ELSE "ConnectionError"
    /\ UNCHANGED <<game_id, parsed_plays_list, pbp_df, player_df, team_df,
                   column, files, stdout>>

\* Line 191: the call of convert_pbp_dict, with its print of line 151.
\* Mutant: an exception of convert_pbp_dict is swallowed and main goes on.
Converted_Continue(out) ==
    /\ parsed_plays_list' = out.parsed
    /\ pbp_df' = out.pbp_df
    /\ player_df' = out.player_df
    /\ team_df' = out.team_df
    /\ exc' = ""
    /\ pc' = "pull_player_names"
    /\ stdout' = Append(stdout, "pbp_df.head()")

Converted(out) ==
    /\ parsed_plays_list' = out.parsed
    /\ pbp_df' = out.pbp_df
    /\ player_df' = out.player_df
    /\ team_df' = out.team_df
    /\ exc' = out.exc
    /\ pc' = IF out.exc = "" THEN "pull_player_names" ELSE "error"
    /\ stdout' = IF out.exc = "" THEN Append(stdout, "pbp_df.head()")
                 ELSE stdout

convert ==
    /\ pc = "convert_pbp_dict"
    /\ Converted(convert_pbp_dict(pbp_dict))
    /\ UNCHANGED <<game_id, requests, response, pbp_dict, column, files>>

\* Lines 195-196: one turn of the loop over player_id_columns.
join_names ==
    /\ pc = "pull_player_names"
    /\ pbp_df' = pull_player_names(pbp_df, player_df, PlayerIdColumns[column])
    /\ player_df' = WithFullNames(player_df)
    /\ column' = column + 1
    /\ pc' = IF column = Len(PlayerIdColumns) THEN "project"
             ELSE "pull_player_names"
    /\ UNCHANGED <<game_id, requests, response, pbp_dict, parsed_plays_list,
                   team_df, files, stdout, exc>>

\* Lines 200-205.
project ==
    /\ pc = "project"
    /\ pbp_df' = [i \in 1..Len(pbp_df) |->
                    [c \in OutputCols \cup {"index"} |-> pbp_df[i][c]]]
    /\ pc' = "write_pbp"
    /\ UNCHANGED <<game_id, requests, response, pbp_dict, parsed_plays_list,
                   player_df, team_df, column, files, stdout, exc>>

\* to_csv(..., index=False): the rows without their index labels.
Csv(df) ==
    [i \in 1..Len(df) |-> [c \in (DOMAIN df[i]) \ {"index"} |-> df[i][c]]]

\* Line 208.
write_pbp ==
    /\ pc = "write_pbp"
    /\ files' = Append(files, [name |-> game_id \o "_pbp_df.txt",
                               content |-> Csv(pbp_df)])
    /\ pc' = "write_player"
    /\ UNCHANGED <<game_id, requests, response, pbp_dict, parsed_plays_list,
                   pbp_df, player_df, team_df, column, stdout, exc>>

\* Line 209.
write_player ==
    /\ pc = "write_player"
    /\ files' = Append(files, [name |-> game_id \o "_player_df.txt",
                               content |-> player_df])
    /\ pc' = "write_team"
    /\ UNCHANGED <<game_id, requests, response, pbp_dict, parsed_plays_list,
                   pbp_df, player_df, team_df, column, stdout, exc>>

\* Line 210.
write_team ==
    /\ pc = "write_team"
    /\ files' = Append(files, [name |-> game_id \o "_team_df.txt",
                               content |-> team_df])
    /\ pc' = "print"
    /\ UNCHANGED <<game_id, requests, response, pbp_dict, parsed_plays_list,
                   pbp_df, player_df, team_df, column, stdout, exc>>

\* Line 211.
print_written ==
    /\ pc = "print"
    /\ stdout' = Append(stdout, ConfirmationMessage)
    /\ pc' = "done"
    /\ UNCHANGED <<game_id, requests, response, pbp_dict, parsed_plays_list,
                   pbp_df, player_df, team_df, column, files, exc>>

\* Lines 182-211.
Next ==
    \/ input_game_id
    \/ get_pbp_dict
    \/ convert
    \/ join_names
    \/ project
    \/ write_pbp
    \/ write_player
    \/ write_team
    \/ print_written

Spec == Init /\ [][Next]_vars

-----------------------------------------------------------------------------
(* Properties *)

\* The plays of the fetched record.
Plays == IF "plays" \in DOMAIN pbp_dict THEN pbp_dict["plays"] ELSE <<>>

\* convert_pbp_dict has just returned: pbp_df is the table it returned and a
\* row's index label is the position of its play in the plays list.
AtConverted == pc = "pull_player_names" /\ column = 1

\* The five joins are done.
AfterJoins == pc \in {"project", "write_pbp", "write_player", "write_team",
                      "print", "done"}

PlayOf(r) == Plays[r.index + 1]

EndsTimeInterval(p) ==
    Len(p.special_tags) > 0 /\ Head(p.special_tags) = "ends_time_interval"

IsGoal(p) == Contains(p.play_by_play_string, s_Goal)

\* A clock of exactly two digits, a colon, two digits.
WellFormedClock(c) ==
    /\ c.t = "str"
    /\ Len(c.v) = 5
    /\ c.v[3] = ":"
    /\ \A i \in {1, 2, 4, 5} : c.v[i] \in {"0", "1", "2", "3", "4", "5", "6", "7", "8", "9"}

ClockValue(c) ==
    (DigitVal(c.v[1]) * 10 + DigitVal(c.v[2])) * 60
    + DigitVal(c.v[4]) * 10 + DigitVal(c.v[5])

\* The record has its three keys and two teams, and no penalty play lacks
\* its details: only a clock can stop the conversion.
OnlyClocksCanFail ==
    /\ response.kind = "json"
    /\ TopLevelKeys \subseteq DOMAIN pbp_dict
    /\ Len(pbp_dict["team_instance"]) >= 2
    /\ \A i \in 1..Len(Plays) :
          Lower(Strip(Plays[i].play_by_play_string)) = s_penalty
          => "details" \in DOMAIN Plays[i].play_summary

\* C1: once convert_pbp_dict has run, every play without a period-end tag
\* and of a type other than Shootout has its row, with seconds_elapsed =
\* minutes*60 + seconds when its clock is well-formed MM:SS and 0 when the
\* clock is missing or malformed.
C1_ClockSeconds ==
    (OnlyClocksCanFail /\ pc \notin {"input", "get_pbp_dict", "convert_pbp_dict"})
    => \A i \in 1..Len(Plays) :
          (~EndsTimeInterval(Plays[i]) /\ Plays[i].play_type # "Shootout")
          => /\ i <= Len(parsed_plays_list)
             /\ parsed_plays_list[i].seconds_elapsed =
                   IF WellFormedClock(Plays[i].clock_time_string)
                   THEN ClockValue(Plays[i].clock_time_string)
                   ELSE 0

\* C2: in the table convert_pbp_dict returns there is one row per play, and
\* the row of every play whose first special tag is "ends_time_interval"
\* has event "Period End" and seconds_elapsed 1200, whatever its clock and
\* play type.
C2_PeriodEnd ==
    AtConverted
    => /\ Len(pbp_df) = Len(Plays)
       /\ \A k \in 1..Len(pbp_df) :
             EndsTimeInterval(PlayOf(pbp_df[k]))
             => /\ pbp_df[k].event = "Period End"
                /\ pbp_df[k].seconds_elapsed = 1200

\* A period end of type Shootout with a clock that does not parse was
\* converted.
C2_Witness ==
    /\ AtConverted
    /\ \E k \in 1..Len(pbp_df) :
          /\ EndsTimeInterval(PlayOf(pbp_df[k]))
          /\ PlayOf(pbp_df[k]).play_type = "Shootout"
          /\ PlayOf(pbp_df[k]).clock_time_string.t = "str"
          /\ ~WellFormedClock(PlayOf(pbp_df[k]).clock_time_string)

\* C8: the row of every play with no special tags and play type Shootout
\* has seconds_elapsed 0, also when its clock is well-formed MM:SS, and its
\* event is "Shootout".
C8_Shootout ==
    AtConverted
    => \A k \in 1..Len(pbp_df) :
          (PlayOf(pbp_df[k]).special_tags = <<>>
           /\ PlayOf(pbp_df[k]).play_type = "Shootout")
          => /\ pbp_df[k].seconds_elapsed = 0
             /\ pbp_df[k].event = "Shootout"

\* A tagless Shootout play with a well-formed, non-zero clock was converted.
C8_Witness ==
    /\ AtConverted
    /\ \E k \in 1..Len(pbp_df) :
          /\ PlayOf(pbp_df[k]).special_tags = <<>>
          /\ PlayOf(pbp_df[k]).play_type = "Shootout"
          /\ WellFormedClock(PlayOf(pbp_df[k]).clock_time_string)
          /\ ClockValue(PlayOf(pbp_df[k]).clock_time_string) > 0

\* The scorer and assist values a play's summary holds.
ScorerAssistValues(p) ==
    {p.play_summary[k] :
        k \in {"scorer_id", "assist_1_id", "assist_2_id"} \cap DOMAIN p.play_summary}

GoalPlayers(p, row) ==
    /\ row.event_p1 = Get(p.play_summary, "scorer_id")
    /\ row.event_p2 = Get(p.play_summary, "assist_1_id")
    /\ row.event_p3 = Get(p.play_summary, "assist_2_id")

\* C3 as claimed: a goal play's participants are the summary's scorer,
\* assist-1 and assist-2; a play that is no goal has the primary actor and
\* the loser, and none of its participant fields holds a value that only
\* the scorer/assist fields of its summary supply.
C3_Original ==
    \A i \in 1..Len(parsed_plays_list) :
        IF IsGoal(Plays[i])
        THEN GoalPlayers(Plays[i], parsed_plays_list[i])
        ELSE /\ parsed_plays_list[i].event_p1 = Plays[i].primary_player_id
             /\ parsed_plays_list[i].event_p2 = Get(Plays[i].play_summary, "loser_id")
             /\ parsed_plays_list[i].event_p3 \notin
                   (ScorerAssistValues(Plays[i])
                    \ {Plays[i].primary_player_id,
                       Get(Plays[i].play_summary, "loser_id")})

\* C3 as amended: a goal play's participants are the summary's scorer,
\* assist-1 and assist-2; a play that is no goal has the primary actor as
\* event_p1, the summary's loser as event_p2, and the summary's assist-2 id
\* (0 when the summary has none) as event_p3. Every play of a converted
\* record has its row.
C3_Participants ==
    /\ (exc = "" /\ pc \notin {"input", "get_pbp_dict", "convert_pbp_dict"})
       => Len(parsed_plays_list) = Len(Plays)
    /\ \A i \in 1..Len(parsed_plays_list) :
          IF IsGoal(Plays[i])
          THEN GoalPlayers(Plays[i], parsed_plays_list[i])
          ELSE /\ parsed_plays_list[i].event_p1 = Plays[i].primary_player_id
               /\ parsed_plays_list[i].event_p2 = Get(Plays[i].play_summary, "loser_id")
               /\ parsed_plays_list[i].event_p3 =
                     IF "assist_2_id" \in DOMAIN Plays[i].play_summary
                     THEN Plays[i].play_summary["assist_2_id"]
                     ELSE I(0)

\* A goal whose summary also names a loser, and a play that is no goal whose
\* summary names a scorer and an assist-2, were converted.
C3_Witness ==
    /\ AtConverted
    /\ \E i \in 1..Len(parsed_plays_list) :
          IsGoal(Plays[i]) /\ "loser_id" \in DOMAIN Plays[i].play_summary
    /\ \E i \in 1..Len(parsed_plays_list) :
          /\ ~IsGoal(Plays[i])
          /\ {"scorer_id", "assist_2_id"} \subseteq DOMAIN Plays[i].play_summary

IsMissing(d, k) == k \notin DOMAIN d \/ d[k] = None

\* C7: in the table convert_pbp_dict returns, a field whose source is
\* absent or null holds 0: the participants of a goal (scorer, assist-1,
\* assist-2) and of another play (primary actor, loser, assist-2), the
\* coordinates, the goalies and scores of the first action entry, and the
\* clock; and no cell of the table holds None.
C7_MissingIsZero ==
    AtConverted
    => \A k \in 1..Len(pbp_df) :
          /\ IsGoal(PlayOf(pbp_df[k]))
             => /\ IsMissing(PlayOf(pbp_df[k]).play_summary, "scorer_id")
                   => pbp_df[k].event_p1 = I(0)
                /\ IsMissing(PlayOf(pbp_df[k]).play_summary, "assist_1_id")
                   => pbp_df[k].event_p2 = I(0)
                /\ IsMissing(PlayOf(pbp_df[k]).play_summary, "assist_2_id")
                   => pbp_df[k].event_p3 = I(0)
          /\ ~IsGoal(PlayOf(pbp_df[k]))
             => /\ PlayOf(pbp_df[k]).primary_player_id = None
                   => pbp_df[k].event_p1 = I(0)
                /\ IsMissing(PlayOf(pbp_df[k]).play_summary, "loser_id")
                   => pbp_df[k].event_p2 = I(0)
                /\ IsMissing(PlayOf(pbp_df[k]).play_summary, "assist_2_id")
                   => pbp_df[k].event_p3 = I(0)
          /\ IsMissing(PlayOf(pbp_df[k]).play_summary, "x_coord")
             => pbp_df[k].x_coord = I(0)
          /\ IsMissing(PlayOf(pbp_df[k]).play_summary, "y_coord")
             => pbp_df[k].y_coord = I(0)
          /\ IsMissing(PlayOf(pbp_df[k]).play_actions[1], "away_team_goalie")
             => pbp_df[k].away_goalie = I(0)
          /\ IsMissing(PlayOf(pbp_df[k]).play_actions[1], "home_team_goalie")
             => pbp_df[k].home_goalie = I(0)
          /\ IsMissing(PlayOf(pbp_df[k]).play_actions[1], "away_team_score")
             => pbp_df[k].away_score = I(0)
          /\ IsMissing(PlayOf(pbp_df[k]).play_actions[1], "home_team_score")
             => pbp_df[k].home_score = I(0)
          /\ PlayOf(pbp_df[k]).clock_time_string = None
             => pbp_df[k].time = I(0)
          /\ \A c \in NullableCols : pbp_df[k][c] # None

\* A goal whose summary has neither an assist-2 id nor coordinates, and a
\* play whose y coordinate is null in the source, were converted.
C7_Witness ==
    /\ AtConverted
    /\ \E k \in 1..Len(pbp_df) :
          /\ IsGoal(PlayOf(pbp_df[k]))
          /\ {"assist_2_id", "x_coord", "y_coord"}
                \cap DOMAIN PlayOf(pbp_df[k]).play_summary = {}
    /\ \E k \in 1..Len(pbp_df) :
          /\ "y_coord" \in DOMAIN PlayOf(pbp_df[k]).play_summary
          /\ PlayOf(pbp_df[k]).play_summary["y_coord"] = None

\* Row a may stand before row b: (period, seconds_elapsed, event_index)
\* of a is lexicographically <= that of b.
MayPrecede(a, b) ==
    \/ a.period < b.period
    \/ /\ a.period = b.period
       /\ \/ a.seconds_elapsed < b.seconds_elapsed
          \/ /\ a.seconds_elapsed = b.seconds_elapsed
             /\ a.event_index <= b.event_index

Ascending(df) ==
    \A i, j \in 1..Len(df) : i < j => MayPrecede(df[i], df[j])

UniqueEventIndex ==
    \A i, j \in 1..Len(Plays) :
        i # j => Plays[i].play_index # Plays[j].play_index

\* The record with its plays rearranged by the permutation f.
Rearranged(f) ==
    [pbp_dict EXCEPT !["plays"] = [i \in 1..Len(Plays) |-> Plays[f[i]]]]

\* C4: from the return of convert_pbp_dict on, through the five joins and
\* in the plays file, the play rows are in ascending lexicographic order of
\* (period, seconds_elapsed, event_index), and every play has its row; when
\* the plays have unique event_index, two rows of different plays are never
\* tied, and converting the same plays in any other input order returns the
\* same rows in the same order.
C4_Sorted ==
    /\ (exc = "" /\ pc \notin {"input", "get_pbp_dict", "convert_pbp_dict"})
       => /\ Ascending(pbp_df)
          /\ {pbp_df[k].event_index : k \in 1..Len(pbp_df)}
                = {Plays[i].play_index : i \in 1..Len(Plays)}
          /\ UniqueEventIndex
             => \A i, j \in 1..Len(pbp_df) :
                   (i < j /\ pbp_df[i].event_index # pbp_df[j].event_index)
                   => ~MayPrecede(pbp_df[j], pbp_df[i])
    /\ (AtConverted /\ UniqueEventIndex)
       => \A f \in Permutations(1..Len(Plays)) :
             Csv(convert_pbp_dict(Rearranged(f)).pbp_df) = Csv(pbp_df)
    /\ \A n \in 1..Len(files) :
          n = 1 => /\ Ascending(files[n].content)
                   /\ files[n].content = Csv(pbp_df)

\* The plays file was written for a record whose plays have unique
\* event_index and arrive out of order: a later play of the list has the
\* period and seconds of an earlier one and a smaller event_index.
C4_Witness ==
    /\ pc = "done"
    /\ UniqueEventIndex
    /\ Len(files[1].content) >= 2
    /\ \E i, j \in 1..Len(Plays) :
          /\ i < j
          /\ Plays[i].time_interval = Plays[j].time_interval
          /\ Plays[i].clock_time_string = Plays[j].clock_time_string
          /\ Plays[j].play_index < Plays[i].play_index
          /\ ~EndsTimeInterval(Plays[i]) /\ ~EndsTimeInterval(Plays[j])
          /\ Plays[i].play_type = Plays[j].play_type

\* The positions of the players whose id is the value x.
PlayersWithId(x) == {n \in 1..Len(player_df) : I(player_df[n].id) = x}

TrimmedName(n) ==
    S(Strip(player_df[n].first_name) \o <<" ">> \o Strip(player_df[n].last_name))

NamesResolved(df) ==
    \A k \in 1..Len(df) : \A c \in IdCols :
        IF PlayersWithId(df[k][c]) # {}
        THEN /\ \E n \in PlayersWithId(df[k][c]) : df[k][c \o "_name"] = TrimmedName(n)
             /\ df[k][c \o "_name"].t = "str"
             /\ df[k][c \o "_name"].v # <<>>
        ELSE df[k][c \o "_name"] = NaN

\* C5: after the five joins, and in the plays file, every row has in each
\* <column>_name the full name (trimmed first name, a space, trimmed last
\* name; not empty) of a player whose id equals the row's value in that
\* column, and null when no player has that id; every play still has a row.
\* The players have a first and a last name, and numeric ids.
C5_Names ==
    /\ AfterJoins
       => /\ NamesResolved(pbp_df)
          /\ \A i \in 1..Len(Plays) :
                \E k \in 1..Len(pbp_df) : pbp_df[k].event_index = Plays[i].play_index
    /\ \A n \in 1..Len(files) : n = 1 => NamesResolved(files[n].content)

\* The plays file holds a row with a resolved event_p1 whose player has
\* blanks around the name, and a row whose event_p2 matches no player.
C5_Witness ==
    /\ pc = "done"
    /\ \E k \in 1..Len(files[1].content) :
          \E n \in PlayersWithId(files[1].content[k].event_p1) :
              /\ player_df[n].first_name # Strip(player_df[n].first_name)
              /\ player_df[n].last_name # Strip(player_df[n].last_name)
    /\ \E k \in 1..Len(files[1].content) :
          /\ PlayersWithId(files[1].content[k].event_p2) = {}
          /\ files[1].content[k].event_p2.t = "int"
          /\ files[1].content[k].event_p2.v # 0

UniquePlayerIds ==
    \A m, n \in 1..Len(player_df) : m # n => player_df[m].id # player_df[n].id

\* The number of rows a left join of df on column c yields: one per pair of
\* a row and a player with its id, and one per row without such a player.
LeftJoinCount(df, c) ==
    Cardinality({pair \in (1..Len(df)) \X (1..Len(player_df)) :
                    I(player_df[pair[2]].id) = df[pair[1]][c]})
    + Cardinality({k \in 1..Len(df) : PlayersWithId(df[k][c]) = {}})

\* The rows of new that are the row r with more columns.
CopiesOf(r, new) ==
    {k \in 1..Len(new) : \A c \in (DOMAIN r) \ {"index"} : new[k][c] = r[c]}

\* One call of pull_player_names, from the table before to the table after.
JoinStep ==
    pc = "pull_player_names"
    => /\ Len(pbp_df') = LeftJoinCount(pbp_df, PlayerIdColumns[column])
       /\ Len(pbp_df') >= Len(pbp_df)
       /\ UniquePlayerIds => Len(pbp_df') = Len(pbp_df)
       /\ \A k \in 1..Len(pbp_df) :
             /\ CopiesOf(pbp_df[k], pbp_df') # {}
             /\ Cardinality(CopiesOf(pbp_df[k], pbp_df'))
                   >= Cardinality(PlayersWithId(pbp_df[k][PlayerIdColumns[column]]))

\* C9: each call of pull_player_names keeps every row and, when the player
\* ids are unique, the number of rows, so that after the five joins the
\* plays table has one row per play of the input; a row whose joined column
\* equals an id that several players have comes out once per such player.
C9_RowCount ==
    /\ [][JoinStep]_vars
    /\ []((AfterJoins /\ UniquePlayerIds) => Len(pbp_df) = Len(Plays))

\* The joins are done on a roster with a duplicated id and left more rows
\* than there are plays.
C9_Witness ==
    /\ AfterJoins
    /\ ~UniquePlayerIds
    /\ Len(Plays) > 0
    /\ Len(pbp_df) > Len(Plays)

RetrievalFailed == response.kind \in {"connection_error", "not_json"}

KeyMissing ==
    response.kind = "json" /\ ~(TopLevelKeys \subseteq DOMAIN pbp_dict)

FileSuffixes == <<"_pbp_df.txt", "_player_df.txt", "_team_df.txt">>

Confirmed == \E n \in 1..Len(stdout) : stdout[n] = ConfirmationMessage

\* C10: a run makes one request and never a second; a file is written only
\* after the transform and all five joins; the files are written in the
\* order plays, players, teams and the confirmation is printed after the
\* third; a run whose retrieval failed or whose record lacks one of the keys
\* plays, roster_player, team_instance ends in an error, and a run that
\* ended in an error wrote no file and printed no confirmation.
C10_Stages ==
    /\ requests <= 1
    /\ pc \notin {"input", "get_pbp_dict"} => requests = 1
    /\ column > 1 => (exc = "" /\ response.kind = "json"
                      /\ pc \notin {"input", "get_pbp_dict", "convert_pbp_dict"})
    /\ files # <<>> => (column = Len(PlayerIdColumns) + 1 /\ exc = "")
    /\ Len(files) <= 3
    /\ \A n \in 1..Len(files) : files[n].name = game_id \o FileSuffixes[n]
    /\ Confirmed => Len(files) = 3
    /\ RetrievalFailed => pc = "error"
    /\ (KeyMissing /\ pc # "convert_pbp_dict") => pc = "error"
    /\ pc = "error" => (files = <<>> /\ ~Confirmed /\ exc # "")
    /\ pc = "done" => (Len(files) = 3 /\ Confirmed)

\* A run ended in an error on a decoded record that lacks a top-level key.
C10_Witness == pc = "error" /\ KeyMissing /\ requests = 1

\* C6: a record that has its three keys and two teams is always converted:
\* no play stops the run.
C6_NoAbort ==
    (/\ response.kind = "json"
     /\ TopLevelKeys \subseteq DOMAIN pbp_dict
     /\ Len(pbp_dict["team_instance"]) >= 2)
    => pc # "error"


====
